---------------------------- MODULE Spec2Model ----------------------------
(***************************************************************************)
(* A model of smtp_client/smtp.py: the Smtp session object, its socket     *)
(* and the ten operations a caller may invoke on it in any order.          *)
(*                                                                         *)
(* Text is modelled as a sequence of characters, one string per character; *)
(* the NUL character, which a TLA+ string cannot hold, is the element NULL. *)
(* Each action is one whole method call: the socket calls it makes, what   *)
(* the server answers (chosen by \E), the status check and the return or   *)
(* raise.  The variable last records what the most recent call did.        *)
(***************************************************************************)
EXTENDS Integers, Sequences, FiniteSets, TLC

VARIABLES
    server_ip,      \* self.server_ip
    port,           \* self.port
    sock,           \* identity of the object self.sock refers to (0 = the
                    \* socket made by __init__, n = the n-th SSLSocket)
    conn,           \* state of that object: "fresh", "connected", "closed"
    peer,           \* the address the socket is connected to
    closes,         \* number of close() calls made so far
    upgraded,       \* history: some starttls() has returned normally
    greeted,        \* history: some connect() has returned normally
    mailDone,       \* history: some mail() has returned normally
    lastCmd,        \* history: what became of the reply of the last command
    tlsFailed,      \* history: some SSLSocket() handshake has failed
    path,           \* history: how many steps of the full transaction have
                    \* been made in order, each answered as expected (-1
                    \* once the calls have left that sequence)
    last,           \* record of the most recent method call
    fn              \* a module-level function applied on its own: its
                    \* arguments and results

vars == << server_ip, port, sock, conn, peer, closes, upgraded, greeted,
           mailDone, lastCmd, tlsFailed, path, last, fn >>

---------------------------------------------------------------------------
(* Bounds of the model *)

\* self.sock is wrapped in an SSLSocket at most this many times
MaxWraps == 2

---------------------------------------------------------------------------
(* Module constants *)

SMTP_PORT == 25
CRLF == << "\r", "\n" >>
NULL == "NUL"

(* The status module (import status) *)
READY == 220
OK == 250
ACCEPTED == 235
START_DATA == 354
CLOSE_OK == 221

---------------------------------------------------------------------------
(* Python primitives *)

Min(a, b) == IF a < b THEN a ELSE b

\* s[i:j] for 0 <= i <= j: never raises, may be shorter than j - i
Slice(s, i, j) == SubSeq(s, i + 1, Min(j, Len(s)))

Digits == << "0", "1", "2", "3", "4", "5", "6", "7", "8", "9" >>

\* str(n) for an int n >= 0
RECURSIVE str(_)
str(n) ==
    IF n < 10 THEN << Digits[n + 1] >>
    ELSE str(n \div 10) \o << Digits[(n % 10) + 1] >>

Upper ==
    << "A", "B", "C", "D", "E", "F", "G", "H", "I", "J", "K", "L", "M", "N",
       "O", "P", "Q", "R", "S", "T", "U", "V", "W", "X", "Y", "Z" >>

Lower ==
    << "a", "b", "c", "d", "e", "f", "g", "h", "i", "j", "k", "l", "m", "n",
       "o", "p", "q", "r", "s", "t", "u", "v", "w", "x", "y", "z" >>

IndexIn(seq, c) == CHOOSE i \in 1..Len(seq) : seq[i] = c

IsIn(seq, c) == \E i \in 1..Len(seq) : seq[i] = c

\* ord(c), for the characters the model's texts are made of
Ord(c) ==
    IF c = NULL THEN 0
    ELSE IF IsIn(Upper, c) THEN 64 + IndexIn(Upper, c)
    ELSE IF IsIn(Lower, c) THEN 96 + IndexIn(Lower, c)
    ELSE IF IsIn(Digits, c) THEN 47 + IndexIn(Digits, c)
    ELSE CASE c = "\n" -> 10
           [] c = "\r" -> 13
           [] c = " " -> 32
           [] c = "." -> 46
           [] c = ":" -> 58
           [] c = "<" -> 60
           [] c = "=" -> 61
           [] c = ">" -> 62
           [] c = "@" -> 64

\* the base64 alphabet
B64 == Upper \o Lower \o Digits \o << "+", "/" >>

\* base64.b64encode: three bytes become four characters, "=" pads the end
RECURSIVE b64encode(_)
b64encode(s) ==
    IF Len(s) = 0 THEN << >>
    ELSE
        LET n == Min(3, Len(s))
            b1 == Ord(s[1])
            b2 == IF n >= 2 THEN Ord(s[2]) ELSE 0
            b3 == IF n >= 3 THEN Ord(s[3]) ELSE 0
            v == b1 * 65536 + b2 * 256 + b3
            c1 == B64[(v \div 262144) + 1]
            c2 == B64[((v \div 4096) % 64) + 1]
            c3 == IF n >= 2 THEN B64[((v \div 64) % 64) + 1] ELSE "="
            c4 == IF n >= 3 THEN B64[(v % 64) + 1] ELSE "="
        IN  << c1, c2, c3, c4 >> \o b64encode(SubSeq(s, n + 1, Len(s)))

---------------------------------------------------------------------------
(* Module-level functions of smtp.py *)

\* email_address[0] and email_address[-1] raise IndexError on ""
wrap_in_brackets_raises(email_address) == Len(email_address) = 0

wrap_in_brackets(email_address) ==
    LET a1 == IF email_address[1] # "<"
              THEN << "<" >> \o email_address ELSE email_address
    IN  IF a1[Len(a1)] # ">" THEN a1 \o << ">" >> ELSE a1

build_auth_line(method, additional_param) ==
    LET auth_command == << "A", "U", "T", "H" >>
    IN  auth_command \o << " " >> \o method \o << " " >> \o additional_param
            \o CRLF

\* the whole reply compared with the code, not its first three characters
compare_status_whole(code, response) == str(code) = response

compare_status(code, response) == str(code) = Slice(response, 0, 3)

\* RuntimeError("Unexpected status code: {} instead of {}"): the error is
\* kept as the two values the message is formatted from
build_unexpected_status_error(status_code, expected) ==
    [status_code |-> status_code, expected |-> expected]

NoError == [status_code |-> << >>, expected |-> << >>]

---------------------------------------------------------------------------
(* What the caller passes and what the server answers *)

Hosts == {"10.0.0.1"}
Ports == {25, 587}
NoPeer == << "", 0 >>

Addresses ==
    { << "a", "@", "x" >>, << "<", "a", "@", "x", ">" >>, << >> }
BodyParams == { << >>, << "8", "B", "I", "T", "M", "I", "M", "E" >> }
Users == { << "b", "o", "b" >> }
PassPhrases == { << "s", "e", "c", "r", "e", "t" >>, << "p", "w" >> }
Payloads == { << "h", "i" >> }

Replies ==
    { << "2", "2", "0", " ", "r", "e", "a", "d", "y" >>,
      << "2", "5", "0", " ", "o", "k" >>,
      << "2", "3", "5", " ", "o", "k" >>,
      << "3", "5", "4", " ", "g", "o" >>,
      << "2", "2", "1", " ", "b", "y", "e" >>,
      << "5", "0", "0", " ", "e", "r", "r", "o", "r" >>,
      << "5", "3", "5", " ", "b", "a", "d" >>,
      << "2", "5" >> }

\* recv(KILO) returns what the server sent (every reply here is shorter
\* than KILO bytes), or raises socket.timeout
RecvOutcomes ==
    { [timeout |-> TRUE, data |-> << >>] }
        \cup { [timeout |-> FALSE, data |-> r] : r \in Replies }

Operations ==
    { "connect", "ehlo", "starttls", "authenticate_plain", "mail",
      "send_recipients", "send_body", "initiate_data", "end_data",
      "quit_terminate" }

---------------------------------------------------------------------------
(* The record of one method call *)

\* the call as it stands on entry, before any socket call
Entry(op) ==
    [ op |-> op,
      outcome |-> "running",      \* "returned" or "raised" when it ends
      error |-> "none",           \* "timeout", "status", "socket", "ssl",
                                  \* "index" when raised
      err |-> NoError,            \* the RuntimeError raised or built
      ret |-> << >>,              \* the response returned
      ok |-> FALSE,               \* authenticate_plain's success flag
      gotReply |-> FALSE,         \* a recv() returned
      reply |-> << >>,            \* what it returned
      sent |-> << >>,             \* the buffers written to the socket
      isCmd |-> FALSE,            \* the buffer written was a command line
      reads |-> 0,                \* number of recv() calls
      timedOut |-> FALSE,         \* a recv() raised socket.timeout
      io |-> << >>,               \* the socket calls made, in order
      used |-> {},                \* the socket objects that were called
      handshake |-> "none",       \* "ok" or "failed" once SSLSocket() ran
      arg1 |-> << >>,             \* the call's first argument, if text
      arg2 |-> << >>,             \* the call's second argument
      sockBefore |-> sock,
      connBefore |-> conn,
      closesBefore |-> closes,
      upgradedBefore |-> upgraded,
      greetedBefore |-> greeted,
      mailBefore |-> mailDone,
      tlsFailedBefore |-> tlsFailed,
      prevCmd |-> lastCmd ]

Raise(call, kind) == [call EXCEPT !.outcome = "raised", !.error = kind]

RaiseStatus(call, e) ==
    [call EXCEPT !.outcome = "raised", !.error = "status", !.err = e]

Return(call, response) ==
    [call EXCEPT !.outcome = "returned", !.ret = response]

\* the send without the recv that should follow it
Exchange_no_recv(call, line, env) ==
    IF conn # "connected"
    THEN Raise([call EXCEPT !.used = {sock}, !.io = << "send" >>], "socket")
    ELSE [call EXCEPT !.used = {sock}, !.sent = << line >>, !.isCmd = TRUE,
                      !.io = << "send" >>, !.outcome = "returned"]

\* a second recv() after the reply, for a reply that comes in two chunks
Exchange_two_chunks(call, line, env) ==
    IF conn # "connected"
    THEN Raise([call EXCEPT !.used = {sock}, !.io = << "send" >>], "socket")
    ELSE
        LET c1 == [call EXCEPT !.used = {sock}, !.sent = << line >>,
                               !.isCmd = TRUE, !.reads = 1,
                               !.io = << "send", "recv" >>]
        IN  IF env.timeout
            THEN Raise([c1 EXCEPT !.timedOut = TRUE], "timeout")
            ELSE [c1 EXCEPT !.gotReply = TRUE, !.reply = env.data,
                            !.reads = 2, !.io = << "send", "recv", "recv" >>]

\* the recv() tried once more after a timeout
Exchange_retry(call, line, env) ==
    IF conn # "connected"
    THEN Raise([call EXCEPT !.used = {sock}, !.io = << "send" >>], "socket")
    ELSE
        LET c1 == [call EXCEPT !.used = {sock}, !.sent = << line >>,
                               !.isCmd = TRUE, !.reads = 1,
                               !.io = << "send", "recv" >>]
        IN  IF env.timeout
            THEN Raise([c1 EXCEPT !.timedOut = TRUE, !.reads = 2,
                                  !.io = << "send", "recv", "recv" >>],
                       "timeout")
            ELSE [c1 EXCEPT !.gotReply = TRUE, !.reply = env.data]

\* self.sock.send(line) followed by self.sock.recv(KILO) inside try/except
\* socket.timeout.  send() on a socket that is not connected raises
\* socket.error and writes nothing.
Exchange(call, line, env) ==
    IF conn # "connected"
    THEN Raise([call EXCEPT !.used = {sock}, !.io = << "send" >>], "socket")
    ELSE
        LET c1 == [call EXCEPT !.used = {sock}, !.sent = << line >>,
                               !.isCmd = TRUE, !.reads = 1,
                               !.io = << "send", "recv" >>]
        IN  IF env.timeout
            THEN Raise([c1 EXCEPT !.timedOut = TRUE], "timeout")
            ELSE [c1 EXCEPT !.gotReply = TRUE, !.reply = env.data]

\* what the call leaves behind for the next command to find
CmdAfter(call) ==
    IF call.isCmd
    THEN IF call.reads = 0 THEN "unread"
         ELSE IF call.gotReply THEN "answered" ELSE "timedout"
    ELSE IF call.gotReply /\ lastCmd # "none" THEN "extra"
    ELSE lastCmd

---------------------------------------------------------------------------
(* The status checks of the methods: what each does with a reply *)

connect_check(call) ==
    LET response == call.reply
        code == Slice(response, 0, 3)
    IN  IF code # str(READY)
        THEN RaiseStatus(call, build_unexpected_status_error(code, str(READY)))
        ELSE Return(call, response)

ehlo_check(call) ==
    LET response == call.reply
    IN  IF ~compare_status(OK, response)
        THEN RaiseStatus(call,
                 build_unexpected_status_error(str(OK), Slice(response, 0, 3)))
        ELSE Return(call, response)

\* starttls going on to the SSLSocket whatever the reply
starttls_check_skipped(call) == Return(call, call.reply)

\* the reply check of starttls; the SSLSocket follows in the action
starttls_check(call) ==
    LET response == call.reply
    IN  IF ~compare_status(READY, response)
        THEN RaiseStatus(call,
                 build_unexpected_status_error(Slice(response, 0, 3),
                                               str(READY)))
        ELSE Return(call, response)

\* the SSLSocket made but not stored in self.sock
SSLSocket_dropped(s) == s

\* ssl.SSLSocket(self.sock): a new socket object around the connection
SSLSocket(s) == s + 1

\* authenticate_plain raising on a refused login, as every other step does
authenticate_plain_check_raising(call) ==
    LET response == call.reply
    IN  IF ~compare_status(ACCEPTED, response)
        THEN RaiseStatus(call,
                 build_unexpected_status_error(Slice(response, 0, 3),
                                               str(READY)))
        ELSE [call EXCEPT !.outcome = "returned", !.ok = TRUE,
                          !.ret = response]

authenticate_plain_check(call) ==
    LET response == call.reply
    IN  IF ~compare_status(ACCEPTED, response)
        THEN [call EXCEPT !.outcome = "returned", !.ok = FALSE,
                          !.ret = response,
                          !.err = build_unexpected_status_error(
                                      Slice(response, 0, 3), str(READY))]
        ELSE [call EXCEPT !.outcome = "returned", !.ok = TRUE,
                          !.ret = response]

mail_check(call) ==
    LET response == call.reply
    IN  IF ~compare_status(OK, response)
        THEN RaiseStatus(call,
                 build_unexpected_status_error(str(OK), Slice(response, 0, 3)))
        ELSE Return(call, response)

send_recipients_check(call) ==
    LET response == call.reply
    IN  IF ~compare_status(OK, response)
        THEN RaiseStatus(call,
                 build_unexpected_status_error(str(OK), Slice(response, 0, 3)))
        ELSE Return(call, response)

\* DATA checked against 250, the code its docstring names
initiate_data_check_250(call) ==
    LET response == call.reply
    IN  IF ~compare_status(OK, response)
        THEN RaiseStatus(call,
                 build_unexpected_status_error(str(OK), Slice(response, 0, 3)))
        ELSE Return(call, response)

initiate_data_check(call) ==
    LET response == call.reply
    IN  IF ~compare_status(START_DATA, response)
        THEN RaiseStatus(call,
                 build_unexpected_status_error(str(OK), Slice(response, 0, 3)))
        ELSE Return(call, response)

end_data_check(call) ==
    LET response == call.reply
    IN  IF ~compare_status(OK, response)
        THEN RaiseStatus(call,
                 build_unexpected_status_error(str(OK), Slice(response, 0, 3)))
        ELSE Return(call, response)

\* QUIT checked against 250, as the other commands are
quit_terminate_check_250(call) ==
    LET response == call.reply
    IN  IF ~compare_status(OK, response)
        THEN RaiseStatus(call,
                 build_unexpected_status_error(str(OK), Slice(response, 0, 3)))
        ELSE Return(call, response)

quit_terminate_check(call) ==
    LET response == call.reply
    IN  IF ~compare_status(CLOSE_OK, response)
        THEN RaiseStatus(call,
                 build_unexpected_status_error(str(CLOSE_OK),
                                               Slice(response, 0, 3)))
        ELSE Return(call, response)

---------------------------------------------------------------------------
(* The command lines *)

ehlo_line == << "E", "H", "L", "O" >> \o CRLF

starttls_line == << "S", "T", "A", "R", "T", "T", "L", "S" >> \o CRLF

\* the credentials packed without the leading NUL
authenticate_plain_line_unled(user, pass_phrase) ==
    LET plain == << "P", "L", "A", "I", "N" >>
        packed_credentials == user \o << NULL >> \o pass_phrase
        encoded_credentials == b64encode(packed_credentials)
    IN  build_auth_line(plain, encoded_credentials)

authenticate_plain_line(user, pass_phrase) ==
    LET plain == << "P", "L", "A", "I", "N" >>
        packed_credentials == << NULL >> \o user \o << NULL >> \o pass_phrase
        encoded_credentials == b64encode(packed_credentials)
    IN  build_auth_line(plain, encoded_credentials)

\* "{} {} {}{}".format(mail_command, from_param, body_param, CRLF)
mail_line(sender_address, body) ==
    LET mail_command == << "M", "A", "I", "L" >>
        body_param == IF body # << >>
                      THEN << "B", "O", "D", "Y", "=" >> \o body ELSE << >>
        from_param == << "F", "R", "O", "M", ":" >>
                          \o wrap_in_brackets(sender_address)
    IN  mail_command \o << " " >> \o from_param \o << " " >> \o body_param
            \o CRLF

\* "{} {}{}{}".format(rcpt_command, to_param, recipient, CRLF)
send_recipients_line(recipient) ==
    LET rcpt_command == << "R", "C", "P", "T" >>
        to_param == << "T", "O", ":" >>
    IN  rcpt_command \o << " " >> \o to_param \o wrap_in_brackets(recipient)
            \o CRLF

initiate_data_line == << "D", "A", "T", "A" >> \o CRLF

end_data_line == CRLF \o << "." >> \o CRLF

quit_terminate_line == << "Q", "U", "I", "T" >> \o CRLF

---------------------------------------------------------------------------
(* The session *)

\* no module-level function is being applied on its own
Idle ==
    [ f |-> "none", stage |-> "idle", debug |-> FALSE, code |-> 0,
      x |-> << >>, y |-> << >>, z |-> << >>,
      env |-> [timeout |-> TRUE, data |-> << >>],
      raised |-> FALSE, out |-> << >>, out2 |-> << >>, flag |-> FALSE,
      log |-> << >>, log2 |-> << >> ]

\* Smtp.__init__: a fresh socket, the server address kept
Init ==
    /\ server_ip \in Hosts
    /\ port \in Ports
    /\ sock = 0
    /\ conn = "fresh"
    /\ peer = NoPeer
    /\ closes = 0
    /\ upgraded = FALSE
    /\ greeted = FALSE
    /\ mailDone = FALSE
    /\ lastCmd = "none"
    /\ tlsFailed = FALSE
    /\ path = 0
    /\ last = Entry("__init__")
    /\ fn = Idle

\* the address connect() hands to self.sock.connect
connect_address == << server_ip, SMTP_PORT >>

\* the code the protocol mandates for each fatal step
Mandated(op) ==
    CASE op = "connect" -> << "2", "2", "0" >>
      [] op = "ehlo" -> << "2", "5", "0" >>
      [] op = "starttls" -> << "2", "2", "0" >>
      [] op = "mail" -> << "2", "5", "0" >>
      [] op = "send_recipients" -> << "2", "5", "0" >>
      [] op = "initiate_data" -> << "3", "5", "4" >>
      [] op = "end_data" -> << "2", "5", "0" >>
      [] op = "quit_terminate" -> << "2", "2", "1" >>

FatalSteps ==
    { "connect", "ehlo", "starttls", "mail", "send_recipients",
      "initiate_data", "end_data", "quit_terminate" }

\* the full transaction, in order
Scenario ==
    << "connect", "ehlo", "mail", "send_recipients", "initiate_data",
       "send_body", "end_data", "quit_terminate" >>

\* the call is the next step of the full transaction and the server
\* answered it with the code mandated for the step
PathAfter(call) ==
    IF /\ path >= 0
       /\ path < Len(Scenario)
       /\ call.op = Scenario[path + 1]
       /\ \/ call.op = "send_body"
          \/ (call.gotReply /\ Slice(call.reply, 0, 3) = Mandated(call.op))
    THEN path + 1
    ELSE -1

\* the method ends: its record and the history are kept
Finish(call) ==
    /\ last' = call
    /\ lastCmd' = CmdAfter(call)
    /\ greeted' =
           (greeted \/ (call.op = "connect" /\ call.outcome = "returned"))
    /\ mailDone' =
           (mailDone \/ (call.op = "mail" /\ call.outcome = "returned"))
    /\ upgraded' =
           (upgraded \/ (call.op = "starttls" /\ call.outcome = "returned"))
    /\ tlsFailed' = (tlsFailed \/ call.handshake = "failed")
    /\ path' = PathAfter(call)
    /\ fn' = fn

\* connect() making a new connection when the socket has been closed
connect_reopening ==
    \E tcp \in {"ok", "refused"}, env \in RecvOutcomes :
        LET call == [Entry("connect") EXCEPT !.used = {sock},
                                             !.io = << "connect" >>]
            established == conn \in {"fresh", "closed"} /\ tcp = "ok"
            c1 == [call EXCEPT !.reads = 1, !.io = << "connect", "recv" >>]
            done == IF ~established THEN Raise(call, "socket")
                    ELSE IF env.timeout
                    THEN Raise([c1 EXCEPT !.timedOut = TRUE], "timeout")
                    ELSE connect_check([c1 EXCEPT !.gotReply = TRUE,
                                                  !.reply = env.data])
        IN  /\ conn' = IF established THEN "connected" ELSE conn
            /\ peer' = IF established THEN connect_address ELSE peer
            /\ Finish(done)
            /\ UNCHANGED << server_ip, port, sock, closes >>

\* connect() on a socket that is connected or closed raises socket.error,
\* as does a refused connection
connect ==
    \E tcp \in {"ok", "refused"}, env \in RecvOutcomes :
        LET call == [Entry("connect") EXCEPT !.used = {sock},
                                             !.io = << "connect" >>]
            established == conn = "fresh" /\ tcp = "ok"
            c1 == [call EXCEPT !.reads = 1, !.io = << "connect", "recv" >>]
            done == IF ~established THEN Raise(call, "socket")
                    ELSE IF env.timeout
                    THEN Raise([c1 EXCEPT !.timedOut = TRUE], "timeout")
                    ELSE connect_check([c1 EXCEPT !.gotReply = TRUE,
                                                  !.reply = env.data])
        IN  /\ conn' = IF established THEN "connected" ELSE conn
            /\ peer' = IF established THEN connect_address ELSE peer
            /\ Finish(done)
            /\ UNCHANGED << server_ip, port, sock, closes >>

ehlo ==
    \E env \in RecvOutcomes :
        LET c1 == Exchange(Entry("ehlo"), ehlo_line, env)
            done == IF c1.gotReply THEN ehlo_check(c1) ELSE c1
        IN  /\ Finish(done)
            /\ UNCHANGED << server_ip, port, sock, conn, peer, closes >>

starttls ==
    /\ sock < MaxWraps
    /\ \E env \in RecvOutcomes, hs \in {"ok", "failed"} :
        LET c1 == Exchange(Entry("starttls"), starttls_line, env)
            c2 == IF c1.gotReply THEN starttls_check(c1) ELSE c1
            wrap == c2.outcome = "returned"
            done == IF ~wrap THEN c2
                    ELSE IF hs = "ok"
                    THEN [c2 EXCEPT !.handshake = "ok",
                                    !.io = c2.io \o << "SSLSocket" >>]
                    ELSE Raise([c2 EXCEPT !.handshake = "failed",
                                          !.io = c2.io \o << "SSLSocket" >>,
                                          !.ret = << >>], "ssl")
        IN  /\ sock' = IF wrap /\ hs = "ok" THEN SSLSocket(sock) ELSE sock
            /\ Finish(done)
            /\ UNCHANGED << server_ip, port, conn, peer, closes >>

authenticate_plain ==
    \E user \in Users, pass_phrase \in PassPhrases,
       env \in RecvOutcomes :
        LET call == [Entry("authenticate_plain") EXCEPT
                         !.arg1 = user, !.arg2 = pass_phrase]
            c1 == Exchange(call, authenticate_plain_line(user, pass_phrase),
                           env)
            done == IF c1.gotReply THEN authenticate_plain_check(c1) ELSE c1
        IN  /\ Finish(done)
            /\ UNCHANGED << server_ip, port, sock, conn, peer, closes >>

mail ==
    \E sender_address \in Addresses, body \in BodyParams,
       env \in RecvOutcomes :
        LET call == [Entry("mail") EXCEPT
                         !.arg1 = sender_address, !.arg2 = body]
            c1 == IF wrap_in_brackets_raises(sender_address)
                  THEN Raise(call, "index")
                  ELSE Exchange(call, mail_line(sender_address, body), env)
            done == IF c1.gotReply THEN mail_check(c1) ELSE c1
        IN  /\ Finish(done)
            /\ UNCHANGED << server_ip, port, sock, conn, peer, closes >>

send_recipients ==
    \E recipient \in Addresses, env \in RecvOutcomes :
        LET call == [Entry("send_recipients") EXCEPT !.arg1 = recipient]
            c1 == IF wrap_in_brackets_raises(recipient)
                  THEN Raise(call, "index")
                  ELSE Exchange(call, send_recipients_line(recipient), env)
            done == IF c1.gotReply THEN send_recipients_check(c1) ELSE c1
        IN  /\ Finish(done)
            /\ UNCHANGED << server_ip, port, sock, conn, peer, closes >>

\* self.sock.sendall(body): no recv, nothing returned
send_body ==
    \E body \in Payloads :
        LET call == [Entry("send_body") EXCEPT !.arg1 = body, !.used = {sock},
                                               !.io = << "sendall" >>]
            done == IF conn # "connected" THEN Raise(call, "socket")
                    ELSE [call EXCEPT !.sent = << body >>,
                                      !.outcome = "returned"]
        IN  /\ Finish(done)
            /\ UNCHANGED << server_ip, port, sock, conn, peer, closes >>

initiate_data ==
    \E env \in RecvOutcomes :
        LET c1 == Exchange(Entry("initiate_data"), initiate_data_line, env)
            done == IF c1.gotReply THEN initiate_data_check(c1) ELSE c1
        IN  /\ Finish(done)
            /\ UNCHANGED << server_ip, port, sock, conn, peer, closes >>

end_data ==
    \E env \in RecvOutcomes :
        LET c1 == Exchange(Entry("end_data"), end_data_line, env)
            done == IF c1.gotReply THEN end_data_check(c1) ELSE c1
        IN  /\ Finish(done)
            /\ UNCHANGED << server_ip, port, sock, conn, peer, closes >>

\* self.sock.close() is reached only when the status check did not raise
quit_terminate ==
    \E env \in RecvOutcomes :
        LET c1 == Exchange(Entry("quit_terminate"), quit_terminate_line, env)
            c2 == IF c1.gotReply THEN quit_terminate_check(c1) ELSE c1
            closing == c2.outcome = "returned"
            done == IF closing THEN [c2 EXCEPT !.io = c2.io \o << "close" >>]
                    ELSE c2
        IN  /\ conn' = IF closing THEN "closed" ELSE conn
            /\ closes' = IF closing THEN closes + 1 ELSE closes
            /\ Finish(done)
            /\ UNCHANGED << server_ip, port, sock, peer >>

Next ==
    \/ connect
    \/ ehlo
    \/ starttls
    \/ authenticate_plain
    \/ mail
    \/ send_recipients
    \/ send_body
    \/ initiate_data
    \/ end_data
    \/ quit_terminate

Spec == Init /\ [][Next]_vars

---------------------------------------------------------------------------
(* The module-level functions and the log of authenticate_plain, applied   *)
(* on their own to arguments drawn from bounded sets                       *)

\* longest address, reply and credential drawn
MaxAddrLen == 3
MaxReplyLen == 4
MaxCredLen == 2

\* every text over an alphabet, up to a length
Texts(alphabet, n) == UNION { [1..k -> alphabet] : k \in 0..n }

\* repr() of a str: quoted, control characters escaped
RECURSIVE Escaped(_)
Escaped(s) ==
    IF Len(s) = 0 THEN << >>
    ELSE (CASE s[1] = "\r" -> << "\\", "r" >>
            [] s[1] = "\n" -> << "\\", "n" >>
            [] s[1] = NULL -> << "\\", "x", "0", "0" >>
            [] OTHER -> << s[1] >>) \o Escaped(Tail(s))

repr(s) == << "'" >> \o Escaped(s) \o << "'" >>

\* the records authenticate_plain hands to logging, in order; the logger is
\* configured at level DEBUG by __init__, so none is filtered out.  debug is
\* the module's DEBUG flag, env what recv() did.
authenticate_plain_log(debug, user, pass_phrase, env) ==
    LET command_line == authenticate_plain_line(user, pass_phrase)
        credentials ==
            << [level |-> "DEBUG",
                message |-> << "u", "s", "e", "r", ":", " " >> \o user \o << ",", " ", "p", "a", "s", "s", "w", "o", "r", "d", ":", " " >>
                                \o pass_phrase] >>
        command ==
            (IF debug
             THEN << [level |-> "DEBUG", message |-> repr(command_line)] >>
             ELSE << >>)
                \o << [level |-> "INFO",
                       message |-> << "C", ":" >> \o command_line] >>
        response == env.data
        answer ==
            IF env.timeout
            THEN << [level |-> "ERROR", message |-> << "t", "i", "m", "e", "d", " ", "o", "u", "t" >>] >>
            ELSE << [level |-> "INFO", message |-> << "S", ":" >> \o response] >>
                     \o (IF ~compare_status(ACCEPTED, response)
                         THEN << [level |-> "ERROR",
                                  message |->
                                      << "U", "n", "e", "x", "p", "e", "c", "t", "e", "d", " ", "s", "t", "a", "t", "u", "s", " ", "c", "o", "d", "e", ":", " " >>
                                          \o Slice(response, 0, 3)
                                          \o << " ", "i", "n", "s", "t", "e", "a", "d", " ", "o", "f", " " >>
                                          \o str(READY)] >>
                         ELSE << >>)
    IN  credentials \o command \o answer

AddressTexts == Texts({"<", ">", "a"}, MaxAddrLen)
ReplyTexts == Texts({"2", "5", "0", " "}, MaxReplyLen)
CredentialTexts == Texts({"a", "Z", "9"}, MaxCredLen)
Codes == {READY, OK, START_DATA}

FnArguments ==
    { [Idle EXCEPT !.f = "wrap_in_brackets", !.stage = "args", !.x = a] :
        a \in AddressTexts }
    \cup
    { [Idle EXCEPT !.f = "compare_status", !.stage = "args", !.code = c,
                   !.x = r] : c \in Codes, r \in ReplyTexts }
    \cup
    { [Idle EXCEPT !.f = "authenticate_plain_line", !.stage = "args",
                   !.x = u, !.y = p] :
        u \in CredentialTexts, p \in CredentialTexts }
    \cup
    { [Idle EXCEPT !.f = "authenticate_plain_log", !.stage = "args",
                   !.debug = d, !.x = u, !.y = p, !.z = q, !.env = e] :
        d \in BOOLEAN, u \in Users, p \in PassPhrases, q \in PassPhrases,
        e \in RecvOutcomes }

FnInit ==
    /\ server_ip \in Hosts
    /\ port = SMTP_PORT
    /\ sock = 0
    /\ conn = "fresh"
    /\ peer = NoPeer
    /\ closes = 0
    /\ upgraded = FALSE
    /\ greeted = FALSE
    /\ mailDone = FALSE
    /\ lastCmd = "none"
    /\ tlsFailed = FALSE
    /\ path = 0
    /\ last = Entry("__init__")
    /\ fn \in FnArguments

SessionUntouched ==
    UNCHANGED << server_ip, port, sock, conn, peer, closes, upgraded,
                 greeted, mailDone, lastCmd, tlsFailed, path, last >>

\* wrap_in_brackets(x): returns, or raises IndexError
ApplyWrap ==
    /\ fn.f = "wrap_in_brackets"
    /\ fn.stage = "args"
    /\ fn' = IF wrap_in_brackets_raises(fn.x)
             THEN [fn EXCEPT !.stage = "done", !.raised = TRUE]
             ELSE [fn EXCEPT !.stage = "once", !.out = wrap_in_brackets(fn.x)]
    /\ SessionUntouched

\* wrap_in_brackets applied to its own result
ApplyWrapAgain ==
    /\ fn.f = "wrap_in_brackets"
    /\ fn.stage = "once"
    /\ fn' = IF wrap_in_brackets_raises(fn.out)
             THEN [fn EXCEPT !.stage = "done", !.raised = TRUE]
             ELSE [fn EXCEPT !.stage = "done",
                             !.out2 = wrap_in_brackets(fn.out)]
    /\ SessionUntouched

ApplyCompare ==
    /\ fn.f = "compare_status"
    /\ fn.stage = "args"
    /\ fn' = [fn EXCEPT !.stage = "done",
                        !.flag = compare_status(fn.code, fn.x)]
    /\ SessionUntouched

ApplyAuthLine ==
    /\ fn.f = "authenticate_plain_line"
    /\ fn.stage = "args"
    /\ fn' = [fn EXCEPT !.stage = "done",
                        !.out = authenticate_plain_line(fn.x, fn.y)]
    /\ SessionUntouched

\* authenticate_plain run twice on the same user, server answer and DEBUG
\* flag, with the pass phrases y and z
ApplyAuthLog ==
    /\ fn.f = "authenticate_plain_log"
    /\ fn.stage = "args"
    /\ fn' = [fn EXCEPT
                 !.stage = "done",
                 !.log = authenticate_plain_log(fn.debug, fn.x, fn.y, fn.env),
                 !.log2 = authenticate_plain_log(fn.debug, fn.x, fn.z, fn.env)]
    /\ SessionUntouched

FnNext ==
    \/ ApplyWrap
    \/ ApplyWrapAgain
    \/ ApplyCompare
    \/ ApplyAuthLine
    \/ ApplyAuthLog

FnSpec == FnInit /\ [][FnNext]_vars

---------------------------------------------------------------------------
(* Properties *)

CommandOps == Operations \ {"connect"}

\* C1: quit() always releases the transport: once quit_terminate has sent
\* QUIT and read a reply, the socket is closed, whatever the reply's code
\* (also when the call ends by raising the unexpected-status error).
C1_QuitAlwaysCloses ==
    (last.op = "quit_terminate" /\ last.gotReply) => conn = "closed"

\* C2: rcptTo before a successful mailFrom, and any command operation before
\* connect() has succeeded, raises and writes nothing to the socket.
C2_OrderingEnforced ==
    ( \/ (last.op = "send_recipients" /\ ~last.mailBefore)
      \/ (last.op \in CommandOps /\ ~last.greetedBefore) )
        => (last.outcome = "raised" /\ last.sent = << >>)

\* C3: the unexpected-status error of every fatal step reports as observed
\* the first three characters of the reply and as expected the code
\* mandated for the step.
C3_ErrorReportsObservedExpected ==
    (last.op \in FatalSteps /\ last.error = "status")
        => /\ last.err.status_code = Slice(last.reply, 0, 3)
           /\ last.err.expected = Mandated(last.op)

\* C4: authenticate_plain never raises on a reply: it returns (False, reply)
\* when the code is not 235 and (True, reply) when it is, the reply
\* unchanged, and leaves the socket open and unreplaced.
C4_AuthNeverRaisesOnReply ==
    (last.op = "authenticate_plain" /\ last.gotReply)
        => /\ last.outcome = "returned"
           /\ last.ret = last.reply
           /\ last.ok <=> (Slice(last.reply, 0, 3) = << "2", "3", "5" >>)
           /\ sock = last.sockBefore
           /\ conn = "connected"
           /\ closes = last.closesBefore

\* C4 witness: authentication refused with 535 came back as (False, reply)
C4_Witness ==
    /\ last.op = "authenticate_plain"
    /\ last.reply = << "5", "3", "5", " ", "b", "a", "d" >>
    /\ last.outcome = "returned"
    /\ ~last.ok

\* C5 as stated: whenever a command is sent after an earlier command, exactly
\* one reply read was completed in between, also when the earlier read
\* timed out.
C5_NoPipelining ==
    (last.isCmd /\ last.prevCmd # "none") => last.prevCmd = "answered"

\* C5 amended: every command sent is followed, inside the same call, by
\* exactly one recv(); that read completes unless it times out, and no
\* command is sent while an earlier command has had no read or more than one.
C5_OneReadPerCommand ==
    last.isCmd
        => /\ last.reads = 1
           /\ last.gotReply \/ (last.outcome = "raised" /\ last.error = "timeout")
           /\ last.prevCmd \in {"none", "answered", "timedout"}
           /\ lastCmd = IF last.gotReply THEN "answered" ELSE "timedout"

\* C5 witness: a command was sent and answered right after a command whose
\* read had timed out
C5_Witness ==
    last.isCmd /\ last.prevCmd = "timedout" /\ last.gotReply

\* C6: once a starttls() has returned, every socket call of every later
\* method goes to the SSLSocket the session then holds, and the plaintext
\* socket object (0) is called no more.
C6_OldStreamUnused ==
    last.upgradedBefore
        => /\ 0 \notin last.used
           /\ last.sockBefore >= 1
           /\ last.used \subseteq {last.sockBefore}

\* C6 witness: a command exchange carried out after the upgrade
C6_Witness ==
    /\ last.upgradedBefore
    /\ last.op = "ehlo"
    /\ last.gotReply
    /\ last.used = {1}

\* C7: the session replaces self.sock at most once, only starttls replaces
\* it, and once encrypted it is never wrapped again.
C7_ReplacedAtMostOnce ==
    /\ sock <= 1
    /\ (sock # last.sockBefore) => last.op = "starttls"
    /\ last.upgradedBefore => last.handshake = "none"

\* C8: the socket is connected to the (host, port) the session was
\* constructed with.
C8_ConnectsToConfiguredPort ==
    peer # NoPeer => peer = << server_ip, port >>

C10_MailLineExact ==
    (last.op = "mail" /\ last.sent # << >>)
        => last.sent[1] =
               << "M", "A", "I", "L", " ", "F", "R", "O", "M", ":" >> \o wrap_in_brackets(last.arg1)
                   \o (IF last.arg2 = << >> THEN << >>
                       ELSE << " ", "B", "O", "D", "Y", "=" >> \o last.arg2)
                   \o CRLF

\* C11: address wrapping is total and idempotent: wrap_in_brackets(x)
\* returns for every x, wrapping its result again changes nothing, and an
\* x that already starts with "<" and ends with ">" comes back unchanged.
C11_WrapTotalIdempotent ==
    fn.f = "wrap_in_brackets"
        => /\ ~fn.raised
           /\ fn.stage = "done" => fn.out2 = fn.out
           /\ ( /\ fn.stage \in {"once", "done"}
                /\ Len(fn.x) >= 1
                /\ fn.x[1] = "<"
                /\ fn.x[Len(fn.x)] = ">" ) => fn.out = fn.x

\* some message of the log holds the text s
Contains(message, s) ==
    \E i \in 1..(Len(message) - Len(s) + 1) :
        SubSeq(message, i, i + Len(s) - 1) = s

StartsWith(message, s) ==
    Len(message) >= Len(s) /\ SubSeq(message, 1, Len(s)) = s

\* the log with the token of the command line left out
TokenMasked(log) ==
    [ i \in 1..Len(log) |->
        IF StartsWith(log[i].message, << "C", ":", "A", "U", "T", "H", " ", "P", "L", "A", "I", "N", " " >>)
        THEN [log[i] EXCEPT !.message = << "C", ":", "A", "U", "T", "H", " ", "P", "L", "A", "I", "N", " " >>]
        ELSE log[i] ]

\* C12: with DEBUG off no logged message of authenticate_plain holds the
\* pass phrase, and two runs that differ only in the pass phrase log the
\* same messages apart from the token of the command line.
C12_SecretNotLogged ==
    (fn.f = "authenticate_plain_log" /\ fn.stage = "done" /\ ~fn.debug)
        => /\ \A i \in 1..Len(fn.log) : ~Contains(fn.log[i].message, fn.y)
           /\ TokenMasked(fn.log) = TokenMasked(fn.log2)

\* C13: the full transaction, every step answered with its mandated code,
\* runs without an error and ends with the socket closed by exactly one
\* close(); and no sequence of calls closes the socket more than once.
C13_HappyPathClosesOnce ==
    /\ path >= 1 => (last.outcome = "returned" /\ last.error = "none")
    /\ (path >= 1 /\ path < Len(Scenario)) => (closes = 0 /\ conn = "connected")
    /\ path = Len(Scenario) => (closes = 1 /\ conn = "closed")
    /\ closes <= 1

\* C13 witness: the whole transaction has been made
C13_Witness ==
    /\ path = Len(Scenario)
    /\ last.op = "quit_terminate"
    /\ last.ret = << "2", "2", "1", " ", "b", "y", "e" >>

\* the three decimal digits of a status code
CodeDigits(code) ==
    << Digits[(code \div 100) + 1], Digits[((code \div 10) % 10) + 1],
       Digits[(code % 10) + 1] >>

\* C14: compare_status is a total predicate: for every code and every reply,
\* also one shorter than three characters, it is true iff the reply's first
\* three characters are the code's digits, whatever follows them.
C14_CompareStatusPredicate ==
    (fn.f = "compare_status" /\ fn.stage = "done")
        => ( fn.flag <=> /\ Len(fn.x) >= 3
                         /\ \A i \in 1..3 : fn.x[i] = CodeDigits(fn.code)[i] )

\* C14 witness: a matching reply with trailing content was accepted and a
\* reply of two characters was rejected
C14_Witness ==
    /\ fn.f = "compare_status"
    /\ fn.stage = "done"
    /\ \/ (fn.flag /\ Len(fn.x) = 4)
       \/ (~fn.flag /\ Len(fn.x) = 2)
    /\ fn.flag => fn.x = << "2", "5", "0", " " >>

\* reading base64 back: four characters become up to three bytes
Sextet(c) == IF c = "=" THEN 0 ELSE IndexIn(B64, c) - 1

CredentialChars == {NULL, "a", "Z", "9"}

Chr(n) ==
    IF \E c \in CredentialChars : Ord(c) = n
    THEN CHOOSE c \in CredentialChars : Ord(c) = n
    ELSE "?"

RECURSIVE b64decode(_)
b64decode(t) ==
    IF Len(t) < 4 THEN << >>
    ELSE
        LET v == Sextet(t[1]) * 262144 + Sextet(t[2]) * 4096
                     + Sextet(t[3]) * 64 + Sextet(t[4])
            pad == IF t[3] = "=" THEN 2 ELSE IF t[4] = "=" THEN 1 ELSE 0
            bytes == << Chr(v \div 65536), Chr((v \div 256) % 256),
                        Chr(v % 256) >>
        IN  SubSeq(bytes, 1, 3 - pad) \o b64decode(SubSeq(t, 5, Len(t)))

\* s.split(NULL)
RECURSIVE SplitNull(_)
SplitNull(s) ==
    IF \A i \in 1..Len(s) : s[i] # NULL THEN << s >>
    ELSE
        LET k == CHOOSE i \in 1..Len(s) :
                     s[i] = NULL /\ \A j \in 1..(i - 1) : s[j] # NULL
        IN  << SubSeq(s, 1, k - 1) >> \o SplitNull(SubSeq(s, k + 1, Len(s)))

\* C15: the line sent is AUTH PLAIN, a space, the token and CRLF, the token
\* being base64 text that decodes to NUL user NUL secret: split on NUL it
\* gives exactly ("", user, secret).
C15_CredentialRoundTrip ==
    (fn.f = "authenticate_plain_line" /\ fn.stage = "done")
        => LET token == SubSeq(fn.out, 12, Len(fn.out) - 2)
           IN  /\ Len(fn.out) >= 13
               /\ fn.out = << "A", "U", "T", "H", " ", "P", "L", "A", "I", "N", " " >> \o token \o CRLF
               /\ Len(token) % 4 = 0
               /\ \A i \in 1..Len(token) :
                      token[i] = "=" \/ IsIn(B64, token[i])
               /\ SplitNull(b64decode(token)) = << << >>, fn.x, fn.y >>

\* C15 witness: a user and a secret of different lengths were encoded
C15_Witness ==
    /\ fn.f = "authenticate_plain_line"
    /\ fn.stage = "done"
    /\ fn.x = << "a" >>
    /\ fn.y = << "Z", "9" >>

\* the number of entries of a call's io that are among the given calls
Count(io, calls) == Cardinality({ i \in 1..Len(io) : io[i] \in calls })

\* C16: when a step other than quit raises the unexpected-status error, the
\* socket is neither closed nor replaced and the mode is unchanged; and
\* starttls runs the TLS upgrade only after a reply with code 220.
C16_MismatchLeavesTransport ==
    /\ ( /\ last.op \in FatalSteps \ {"quit_terminate"}
         /\ last.error = "status" )
           => /\ sock = last.sockBefore
              /\ closes = last.closesBefore
              /\ conn = "connected"
              /\ last.handshake = "none"
              /\ Count(last.io, {"SSLSocket", "close"}) = 0
    /\ last.handshake # "none"
           => /\ last.op = "starttls"
              /\ last.gotReply
              /\ Slice(last.reply, 0, 3) = << "2", "2", "0" >>

\* C16 witness: starttls was refused by the server
C16_Witness ==
    /\ last.op = "starttls"
    /\ last.error = "status"
    /\ last.reply = << "5", "0", "0", " ", "e", "r", "r", "o", "r" >>

\* C17: when the TLS handshake fails after a 220, starttls raises, and no
\* later call sends or receives on the plaintext socket.
C17_NoPlaintextAfterFailedUpgrade ==
    /\ last.handshake = "failed" => last.outcome = "raised"
    /\ (last.tlsFailedBefore /\ last.sockBefore = 0)
           => (last.sent = << >> /\ last.reads = 0)

Writes(call) == Count(call.io, {"send", "sendall"})

Reads(call) == Count(call.io, {"recv"})

\* no recv() comes before a send() in the call
WriteBeforeRead(call) ==
    \A i, j \in 1..Len(call.io) :
        (call.io[i] = "recv" /\ call.io[j] \in {"send", "sendall"}) => j < i

\* C18 as stated: every call makes at most one write and then at most one
\* read; connect makes no write and exactly one read, send_body writes its
\* payload and reads nothing, every other call makes exactly one write and
\* then exactly one read.
C18_IoBudget ==
    last.op \in Operations
        => /\ Writes(last) <= 1
           /\ Reads(last) <= 1
           /\ WriteBeforeRead(last)
           /\ last.op = "connect" => (Writes(last) = 0 /\ Reads(last) = 1)
           /\ last.op = "send_body"
                => (Reads(last) = 0 /\ Writes(last) = 1
                    /\ (last.sent # << >> => last.sent = << last.arg1 >>))
           /\ last.op \notin {"connect", "send_body"}
                => (Writes(last) = 1 /\ Reads(last) = 1)

\* C18 amended: every call makes at most one write and then at most one
\* read.  connect makes no write, and exactly one read once its connection
\* is made (none when the connection attempt raises).  send_body makes one
\* write, of the payload as given, and no read.  Every other call makes one
\* write, and exactly one read after it when the write went out (the socket
\* was connected); mail and send_recipients given an empty address raise
\* before any write.
C18_IoBudgetWhenConnected ==
    last.op \in Operations
        => /\ Writes(last) <= 1
           /\ Reads(last) <= 1
           /\ WriteBeforeRead(last)
           /\ last.reads = Reads(last)
           /\ last.op = "connect"
                => /\ Writes(last) = 0
                   /\ Reads(last) = 1
                        <=> (last.connBefore = "fresh" /\ conn = "connected")
           /\ last.op = "send_body"
                => /\ Reads(last) = 0
                   /\ Writes(last) = 1
                   /\ last.connBefore = "connected"
                        => last.sent = << last.arg1 >>
                   /\ last.connBefore # "connected" => last.sent = << >>
           /\ last.op \notin {"connect", "send_body"}
                => /\ Writes(last) = 1 <=> last.error # "index"
                   /\ last.error = "index"
                        <=> ( /\ last.op \in {"mail", "send_recipients"}
                              /\ last.arg1 = << >> )
                   /\ last.sent # << >>
                        <=> ( /\ last.connBefore = "connected"
                              /\ last.error # "index" )
                   /\ Reads(last) = 1 <=> last.sent # << >>

\* C18 witness: a command written and its reply read, in that order
C18_Witness ==
    /\ last.op = "end_data"
    /\ last.io = << "send", "recv" >>
    /\ last.gotReply

\* C19: a recv() that times out ends the call with the timeout error: no
\* further send or recv, no status check, the socket neither closed nor
\* replaced.
C19_TimeoutPropagates ==
    last.timedOut
        => /\ last.outcome = "raised"
           /\ last.error = "timeout"
           /\ Reads(last) = 1
           /\ last.io[Len(last.io)] = "recv"
           /\ ~last.gotReply
           /\ last.err = NoError
           /\ last.handshake = "none"
           /\ sock = last.sockBefore
           /\ closes = last.closesBefore
           /\ conn = "connected"

\* C19 witness: the reply to QUIT did not come in time
C19_Witness ==
    /\ last.op = "quit_terminate"
    /\ last.timedOut
    /\ last.sent = << quit_terminate_line >>

\* C20: once quit has closed the socket, every later call raises, writes
\* nothing, reads nothing, and leaves the socket closed, unreplaced and
\* closed only that once.
C20_ClosedIsTerminal ==
    last.connBefore = "closed"
        => /\ last.outcome = "raised"
           /\ last.sent = << >>
           /\ Reads(last) = 0
           /\ conn = "closed"
           /\ sock = last.sockBefore
           /\ closes = last.closesBefore
           /\ closes = 1

\* C20 witness: a second quit after the one that closed the socket
C20_Witness ==
    /\ last.op = "quit_terminate"
    /\ last.connBefore = "closed"
    /\ last.outcome = "raised"

=============================================================================
